---- MODULE Spec2Model ----
(***************************************************************************)
(* Model of task/03-date-tasks.js: five pure date functions                *)
(*   parseDataFromRfc2822, parseDataFromIso8601, isLeapYear,               *)
(*   timeSpanToString, angleBetweenClockHands.                             *)
(*                                                                         *)
(* A JavaScript Date holds a time value t in milliseconds since the epoch, *)
(* or NaN.  Real time values exceed 32 bits, so t is kept split the way    *)
(* ECMA-262 splits it: Day(t) = floor(t / msPerDay) and                    *)
(* TimeWithinDay(t) = t mod msPerDay, as the record [day, ms].             *)
(* A string is a sequence of one-character strings.                        *)
(***************************************************************************)
EXTENDS Integers, Sequences, FiniteSets, TLC

\* ---------------------------------------------------------------- bounds
\* Largest whole-hour part of the timespans given to timeSpanToString.
MaxHours == 101
\* isLeapYear is called on dates of the years -MaxYearBC .. MaxYear.
MaxYear == 2404
MaxYearBC == 8

\* ------------------------------------------------------ program constants
msPerHour == 3600000
msPerMinute == 60000
msPerSecond == 1000
msPerDay == 24 * msPerHour

\* ------------------------------------------------- JavaScript primitives
\* JavaScript's % : the remainder takes the sign of the dividend.
JsRem(a, n) == IF a >= 0 THEN a % n ELSE 0 - ((0 - a) % n)

Abs(x) == IF x < 0 THEN 0 - x ELSE x

\* Number -> String of a non-negative integer (its decimal digits).
Digit(d) == <<"0", "1", "2", "3", "4", "5", "6", "7", "8", "9">>[d + 1]

RECURSIVE NumToStr(_)
NumToStr(n) == IF n < 10 THEN <<Digit(n)>>
               ELSE NumToStr(n \div 10) \o <<Digit(n % 10)>>

\* The Invalid Date: a Date whose time value is NaN.
InvalidDate == [nan |-> TRUE]

MkDate(d, t) == [day |-> d, ms |-> t]

\* A date d shifted by delta milliseconds (|delta| < msPerDay * 2^6).
AddMs(d, delta) ==
    LET total == d.ms + delta
    IN  MkDate(d.day + (total \div msPerDay), total % msPerDay)

\* endDate - startDate: the difference of the two time values.
DateDiff(endDate, startDate) ==
    (endDate.day - startDate.day) * msPerDay + (endDate.ms - startDate.ms)

\* ECMA-262 DayFromYear, DaysInYear, YearFromTime, on day numbers.
DayFromYear(y) ==
    365 * (y - 1970) + ((y - 1969) \div 4) - ((y - 1901) \div 100)
        + ((y - 1601) \div 400)

YearFromDay(day) ==
    LET y0 == 1970 + (day \div 365)
    IN  CHOOSE y \in (y0 - 3)..(y0 + 3) :
            DayFromYear(y) <= day /\ day < DayFromYear(y + 1)

\* date.getFullYear(): the year of the local time t + LocalTZA,
\* tzaMin the zone's offset from UTC in minutes.
getFullYear(date, tzaMin) == YearFromDay(AddMs(date, tzaMin * msPerMinute).day)

getUTCHours(date) == date.ms \div msPerHour

getUTCMinutes(date) == (date.ms \div msPerMinute) % 60

\* ------------------------------------------------------------ isLeapYear
isLeapYear_NoCenturyRule(date, tzaMin) ==
    LET year == getFullYear(date, tzaMin)
    IN  JsRem(year, 4) = 0

isLeapYear(date, tzaMin) ==
    LET year == getFullYear(date, tzaMin)
    IN  IF JsRem(year, 4) # 0 THEN FALSE
        ELSE IF JsRem(year, 100) # 0 THEN TRUE
        ELSE IF JsRem(year, 400) # 0 THEN FALSE
        ELSE TRUE

\* ------------------------------------------------ angleBetweenClockHands
\* Angles are kept in half degrees, so that (h*60+m)/2 stays an integer;
\* the returned number angle*PI/180 is the fraction num/den of PI.
RadiansOfHalfDegrees(a2) == [num |-> a2, den |-> 360]

angleBetweenClockHands_No12(date) ==
    LET h == getUTCHours(date)
        m == getUTCMinutes(date)
        a == (h * 60 + m) - 12 * m
        a2 == IF a > 360 THEN 720 - a ELSE a
    IN  RadiansOfHalfDegrees(Abs(a2))

angleBetweenClockHands(date) ==
    LET h0 == getUTCHours(date)
        m == getUTCMinutes(date)
        h == IF h0 >= 12 THEN h0 - 12 ELSE h0
        angle == (h * 60 + m) - 12 * m
        angle2 == IF angle > 360 THEN 720 - angle ELSE angle
    IN  RadiansOfHalfDegrees(Abs(angle2))

\* ------------------------------------------------------ timeSpanToString
\* h, m, s and ms start as the strings '00', '00', '00', '000'; a field is
\* replaced only when its value is positive: by '0' + value (a string) or
\* by +value (a number, which the final concatenation turns into its
\* decimal digits).  Math.floor((x / 60000) < 10) is Math.floor of a
\* boolean: 1 when x / 60000 < 10, that is x < 10 * 60000, and 0 otherwise.
timeSpanToString_TempNotAdvanced(startDate, endDate) ==
    LET time == DateDiff(endDate, startDate)
        fh == time \div msPerHour
        h == IF fh > 0
             THEN IF fh < 10 THEN <<"0">> \o NumToStr(fh) ELSE NumToStr(fh)
             ELSE <<"0", "0">>
        temp1 == 0
        fm == Abs(temp1 - time) \div msPerMinute
        m == IF fm > 0
             THEN IF Abs(temp1 - time) < 10 * msPerMinute
                  THEN <<"0">> \o NumToStr(fm) ELSE NumToStr(fm)
             ELSE <<"0", "0">>
        temp2 == IF fm > 0 THEN temp1 + fm * msPerMinute ELSE temp1
        fs == Abs(temp2 - time) \div msPerSecond
        s == IF fs > 0
             THEN IF Abs(temp2 - time) < 10 * msPerSecond
                  THEN <<"0">> \o NumToStr(fs) ELSE NumToStr(fs)
             ELSE <<"0", "0">>
        temp3 == IF fs > 0 THEN temp2 + fs * msPerSecond ELSE temp2
        rest == Abs(temp3 - time)
        ms == IF rest > 0
              THEN IF rest < 10 THEN <<"0", "0">> \o NumToStr(rest)
                   ELSE IF rest < 100 THEN <<"0">> \o NumToStr(rest)
                   ELSE NumToStr(rest)
              ELSE <<"0", "0", "0">>
    IN  h \o <<":">> \o m \o <<":">> \o s \o <<".">> \o ms

timeSpanToString_MsNotPadded(startDate, endDate) ==
    LET time == DateDiff(endDate, startDate)
        fh == time \div msPerHour
        h == IF fh > 0
             THEN IF fh < 10 THEN <<"0">> \o NumToStr(fh) ELSE NumToStr(fh)
             ELSE <<"0", "0">>
        temp1 == IF fh > 0 THEN fh * msPerHour ELSE 0
        fm == Abs(temp1 - time) \div msPerMinute
        m == IF fm > 0
             THEN IF Abs(temp1 - time) < 10 * msPerMinute
                  THEN <<"0">> \o NumToStr(fm) ELSE NumToStr(fm)
             ELSE <<"0", "0">>
        temp2 == IF fm > 0 THEN temp1 + fm * msPerMinute ELSE temp1
        fs == Abs(temp2 - time) \div msPerSecond
        s == IF fs > 0
             THEN IF Abs(temp2 - time) < 10 * msPerSecond
                  THEN <<"0">> \o NumToStr(fs) ELSE NumToStr(fs)
             ELSE <<"0", "0">>
        temp3 == IF fs > 0 THEN temp2 + fs * msPerSecond ELSE temp2
        rest == Abs(temp3 - time)
        ms == IF rest > 0 THEN NumToStr(rest) ELSE <<"0", "0", "0">>
    IN  h \o <<":">> \o m \o <<":">> \o s \o <<".">> \o ms

timeSpanToString(startDate, endDate) ==
    LET time == DateDiff(endDate, startDate)
        fh == time \div msPerHour
        h == IF fh > 0
             THEN IF fh < 10 THEN <<"0">> \o NumToStr(fh) ELSE NumToStr(fh)
             ELSE <<"0", "0">>
        temp1 == IF fh > 0 THEN fh * msPerHour ELSE 0
        fm == Abs(temp1 - time) \div msPerMinute
        m == IF fm > 0
             THEN IF Abs(temp1 - time) < 10 * msPerMinute
                  THEN <<"0">> \o NumToStr(fm) ELSE NumToStr(fm)
             ELSE <<"0", "0">>
        temp2 == IF fm > 0 THEN temp1 + fm * msPerMinute ELSE temp1
        fs == Abs(temp2 - time) \div msPerSecond
        s == IF fs > 0
             THEN IF Abs(temp2 - time) < 10 * msPerSecond
                  THEN <<"0">> \o NumToStr(fs) ELSE NumToStr(fs)
             ELSE <<"0", "0">>
        temp3 == IF fs > 0 THEN temp2 + fs * msPerSecond ELSE temp2
        rest == Abs(temp3 - time)
        ms == IF rest > 0
              THEN IF rest < 10 THEN <<"0", "0">> \o NumToStr(rest)
                   ELSE IF rest < 100 THEN <<"0">> \o NumToStr(rest)
                   ELSE NumToStr(rest)
              ELSE <<"0", "0", "0">>
    IN  h \o <<":">> \o m \o <<":">> \o s \o <<".">> \o ms

\* ----------------------------------------------------------- new Date(s)
\* Date.parse as ECMA-262 and V8 (the engine of Node.js) define it: the
\* string is first read in the ECMAScript date-time format
\* YYYY-MM-DDTHH:mm:ss followed by Z or +HH:mm / -HH:mm; a string not in
\* that format goes to the engine's legacy reader, which accepts
\*   [day-name ","] D Mon YYYY HH:mm:ss zone
\*   Month D, YYYY HH:mm:ss                      (local time)
\* with zone one of GMT, UT, UTC, Z, +hhmm, -hhmm, GMT+hh, GMT-hh, and a
\* month word recognised by its first three letters.  Anything else, and
\* any field out of range, gives the Invalid Date.
Letters ==
    {"a", "b", "c", "d", "e", "f", "g", "h", "i", "j", "k", "l", "m", "n",
     "o", "p", "q", "r", "s", "t", "u", "v", "w", "x", "y", "z", "A", "B",
     "C", "D", "E", "F", "G", "H", "I", "J", "K", "L", "M", "N", "O", "P",
     "Q", "R", "S", "T", "U", "V", "W", "X", "Y", "Z"}

Digits == {"0", "1", "2", "3", "4", "5", "6", "7", "8", "9"}

CharClass(c) == IF c \in Digits THEN "digit"
                ELSE IF c \in Letters THEN "letter" ELSE "symbol"

\* The scanner: runs of digits, runs of letters, single other characters.
RECURSIVE Tokenize(_)
Tokenize(str) ==
    IF str = <<>> THEN <<>>
    ELSE LET c == Head(str)
             rest == Tokenize(Tail(str))
         IN  IF /\ rest # <<>>
                /\ CharClass(c) # "symbol"
                /\ CharClass(Head(rest)[1]) = CharClass(c)
             THEN <<<<c>> \o Head(rest)>> \o Tail(rest)
             ELSE <<<<c>>>> \o rest

IsNumber(tok) == \A i \in 1..Len(tok) : tok[i] \in Digits

IsWord(tok) == \A i \in 1..Len(tok) : tok[i] \in Letters

RECURSIVE NumberOf(_)
NumberOf(tok) ==
    IF Len(tok) = 0 THEN 0
    ELSE 10 * NumberOf(SubSeq(tok, 1, Len(tok) - 1))
            + (CHOOSE d \in 0..9 : Digit(d) = tok[Len(tok)])

MonthNames ==
    << <<"J","a","n">>, <<"F","e","b">>, <<"M","a","r">>, <<"A","p","r">>,
       <<"M","a","y">>, <<"J","u","n">>, <<"J","u","l">>, <<"A","u","g">>,
       <<"S","e","p">>, <<"O","c","t">>, <<"N","o","v">>, <<"D","e","c">> >>

\* The month a word names by its first three letters, 0 if none.
MonthOfWord(tok) ==
    IF Len(tok) >= 3 /\ \E k \in 1..12 : MonthNames[k] = SubSeq(tok, 1, 3)
    THEN CHOOSE k \in 1..12 : MonthNames[k] = SubSeq(tok, 1, 3)
    ELSE 0

\* ECMA-262 MakeDay: the day number of year-month-day, month in 1..12.
DaysBeforeMonth(y, month) ==
    LET leap == IF DayFromYear(y + 1) - DayFromYear(y) = 366 THEN 1 ELSE 0
        cum == <<0, 31, 59, 90, 120, 151, 181, 212, 243, 273, 304, 334>>
    IN  cum[month] + (IF month > 2 THEN leap ELSE 0)

MakeDay(y, month, d) == DayFromYear(y) + DaysBeforeMonth(y, month) + d - 1

MakeTime(hh, mm, ss) == hh * msPerHour + mm * msPerMinute + ss * msPerSecond

\* The UTC instant of a wall-clock reading taken offsetMin minutes east.
ApplyOffset_Added(d, offsetMin) == AddMs(d, offsetMin * msPerMinute)

ApplyOffset(d, offsetMin) == AddMs(d, (0 - offsetMin) * msPerMinute)

FieldsInRange(month, d, hh, mm, ss) ==
    /\ month \in 1..12 /\ d \in 1..31
    /\ hh \in 0..23 /\ mm \in 0..59 /\ ss \in 0..59

\* HH:mm:ss at toks[i .. i+4].
IsClock(toks, i) ==
    /\ Len(toks) >= i + 4
    /\ IsNumber(toks[i]) /\ toks[i + 1] = <<":">>
    /\ IsNumber(toks[i + 2]) /\ toks[i + 3] = <<":">>
    /\ IsNumber(toks[i + 4])

IsSign(tok) == tok = <<"+">> \/ tok = <<"-">>

SignOf(tok) == IF tok = <<"-">> THEN 0 - 1 ELSE 1

\* The ECMAScript date-time format with a zone designator.
IsoShape(toks) ==
    /\ Len(toks) \in {12, 15}
    /\ IsNumber(toks[1]) /\ Len(toks[1]) = 4 /\ toks[2] = <<"-">>
    /\ IsNumber(toks[3]) /\ Len(toks[3]) = 2 /\ toks[4] = <<"-">>
    /\ IsNumber(toks[5]) /\ Len(toks[5]) = 2 /\ toks[6] = <<"T">>
    /\ IsClock(toks, 7)
    /\ Len(toks[7]) = 2 /\ Len(toks[9]) = 2 /\ Len(toks[11]) = 2
    /\ IF Len(toks) = 12 THEN toks[12] = <<"Z">>
       ELSE /\ IsSign(toks[12])
            /\ IsNumber(toks[13]) /\ Len(toks[13]) = 2 /\ toks[14] = <<":">>
            /\ IsNumber(toks[15]) /\ Len(toks[15]) = 2
            /\ NumberOf(toks[13]) <= 23 /\ NumberOf(toks[15]) <= 59

IsoValue(toks) ==
    LET month == NumberOf(toks[3])
        d == NumberOf(toks[5])
        hh == NumberOf(toks[7])
        mm == NumberOf(toks[9])
        ss == NumberOf(toks[11])
        off == IF Len(toks) = 12 THEN 0
               ELSE SignOf(toks[12])
                        * (NumberOf(toks[13]) * 60 + NumberOf(toks[15]))
    IN  IF FieldsInRange(month, d, hh, mm, ss)
        THEN ApplyOffset(MkDate(MakeDay(NumberOf(toks[1]), month, d),
                                MakeTime(hh, mm, ss)), off)
        ELSE InvalidDate

\* The zone of the legacy reader: [ok, min], min the minutes east of UTC.
ZoneNames == { <<"G","M","T">>, <<"U","T">>, <<"U","T","C">>, <<"Z">> }

SignedZone(sign, n) ==
    IF Len(n) \in {1, 2} THEN [ok |-> TRUE, min |-> SignOf(sign) * NumberOf(n) * 60]
    ELSE IF Len(n) \in {3, 4}
    THEN [ok |-> TRUE,
          min |-> SignOf(sign) * ((NumberOf(n) \div 100) * 60 + (NumberOf(n) % 100))]
    ELSE [ok |-> FALSE, min |-> 0]

LegacyZone(z) ==
    IF Len(z) = 1 /\ z[1] \in ZoneNames THEN [ok |-> TRUE, min |-> 0]
    ELSE IF Len(z) = 2 /\ IsSign(z[1]) /\ IsNumber(z[2])
    THEN SignedZone(z[1], z[2])
    ELSE IF Len(z) = 3 /\ z[1] \in ZoneNames /\ IsSign(z[2]) /\ IsNumber(z[3])
    THEN SignedZone(z[2], z[3])
    ELSE [ok |-> FALSE, min |-> 0]

\* A leading day name is skipped: a word read before any number is ignored.
SkipDayName(toks) ==
    IF /\ Len(toks) >= 3 /\ IsWord(toks[1]) /\ MonthOfWord(toks[1]) = 0
       /\ toks[2] = <<",">> /\ toks[3] = <<" ">>
    THEN SubSeq(toks, 4, Len(toks))
    ELSE toks

\* D Mon YYYY HH:mm:ss zone
DayFirstShape(t) ==
    /\ Len(t) >= 13
    /\ IsNumber(t[1]) /\ t[2] = <<" ">> /\ IsWord(t[3]) /\ t[4] = <<" ">>
    /\ IsNumber(t[5]) /\ t[6] = <<" ">> /\ IsClock(t, 7) /\ t[12] = <<" ">>

\* Month D, YYYY HH:mm:ss
MonthFirstShape(t) ==
    /\ Len(t) = 12
    /\ IsWord(t[1]) /\ t[2] = <<" ">> /\ IsNumber(t[3]) /\ t[4] = <<",">>
    /\ t[5] = <<" ">> /\ IsNumber(t[6]) /\ t[7] = <<" ">> /\ IsClock(t, 8)

LegacyParse(toks, tzaMin) ==
    LET t == SkipDayName(toks)
    IN  IF DayFirstShape(t)
        THEN LET month == MonthOfWord(t[3])
                 d == NumberOf(t[1])
                 zone == LegacyZone(SubSeq(t, 13, Len(t)))
             IN  IF /\ zone.ok
                    /\ FieldsInRange(month, d, NumberOf(t[7]), NumberOf(t[9]),
                                     NumberOf(t[11]))
                 THEN ApplyOffset(
                          MkDate(MakeDay(NumberOf(t[5]), month, d),
                                 MakeTime(NumberOf(t[7]), NumberOf(t[9]),
                                          NumberOf(t[11]))), zone.min)
                 ELSE InvalidDate
        ELSE IF MonthFirstShape(t)
        THEN LET month == MonthOfWord(t[1])
                 d == NumberOf(t[3])
             IN  IF FieldsInRange(month, d, NumberOf(t[8]), NumberOf(t[10]),
                                  NumberOf(t[12]))
                 THEN ApplyOffset(
                          MkDate(MakeDay(NumberOf(t[6]), month, d),
                                 MakeTime(NumberOf(t[8]), NumberOf(t[10]),
                                          NumberOf(t[12]))), tzaMin)
                 ELSE InvalidDate
        ELSE InvalidDate

DateParse(toks, tzaMin) ==
    IF IsoShape(toks) THEN IsoValue(toks) ELSE LegacyParse(toks, tzaMin)

\* new Date(value) for a string value.
NewDate(value, tzaMin) == DateParse(Tokenize(value), tzaMin)

\* ------------------------------- the grammars the two parsers are named for
\* RFC 2822 date-time: [day-name ","] D Mon YYYY HH:mm:ss zone, the day
\* name and the month three letters, zone +hhmm / -hhmm or an obsolete
\* zone name (GMT, UT).
DayNames ==
    << <<"S","u","n">>, <<"M","o","n">>, <<"T","u","e">>, <<"W","e","d">>,
       <<"T","h","u">>, <<"F","r","i">>, <<"S","a","t">> >>

IsRfc2822(str) ==
    LET toks == Tokenize(str)
        named == /\ Len(toks) >= 3
                 /\ \E k \in 1..7 : DayNames[k] = toks[1]
                 /\ toks[2] = <<",">> /\ toks[3] = <<" ">>
        t == IF named THEN SubSeq(toks, 4, Len(toks)) ELSE toks
        z == SubSeq(t, 13, Len(t))
    IN  /\ DayFirstShape(t)
        /\ Len(t[1]) \in {1, 2} /\ Len(t[3]) = 3 /\ MonthOfWord(t[3]) # 0
        /\ Len(t[5]) = 4
        /\ Len(t[7]) = 2 /\ Len(t[9]) = 2 /\ Len(t[11]) = 2
        /\ FieldsInRange(MonthOfWord(t[3]), NumberOf(t[1]), NumberOf(t[7]),
                         NumberOf(t[9]), NumberOf(t[11]))
        /\ \/ z \in {<< <<"G","M","T">> >>, << <<"U","T">> >>}
           \/ Len(z) = 2 /\ IsSign(z[1]) /\ IsNumber(z[2]) /\ Len(z[2]) = 4

\* ISO 8601 date-time: YYYY-MM-DDTHH:mm:ss with Z or a +HH:mm / -HH:mm
\* offset, every field in range.
IsIso8601(str) ==
    LET toks == Tokenize(str)
    IN  /\ IsoShape(toks)
        /\ FieldsInRange(NumberOf(toks[3]), NumberOf(toks[5]),
                         NumberOf(toks[7]), NumberOf(toks[9]),
                         NumberOf(toks[11]))

\* ------------------------------------------------------------ the parsers
parseDataFromRfc2822_OwnGrammarOnly(value, tzaMin) ==
    IF IsRfc2822(value) THEN NewDate(value, tzaMin) ELSE InvalidDate

parseDataFromRfc2822(value, tzaMin) == NewDate(value, tzaMin)

parseDataFromIso8601(value, tzaMin) == NewDate(value, tzaMin)

\* ------------------------------------------------------------------ state
\* pc       "idle" before a call, "done" after it
\* op       the function called
\* date     the Date argument (startDate of timeSpanToString)
\* endDate  the second Date argument of timeSpanToString
\* value    the string argument of the two parsers
\* given    the reading the caller wrote value from, when it wrote one
\* tza      the host's offset from UTC, in minutes
\* result   the value returned
VARIABLES pc, op, date, endDate, value, given, tza, result

vars == <<pc, op, date, endDate, value, given, tza, result>>

NoDate == [none |-> TRUE]

Init ==
    /\ pc = "idle"
    /\ op = "none"
    /\ date = NoDate
    /\ endDate = NoDate
    /\ value = <<>>
    /\ given = NoDate
    /\ tza = 0
    /\ result = NoDate

\* The zones the host may run in: UTC-12:00, UTC, UTC+14:00 (minutes).
Zones == {0 - 720, 0, 840}

\* Dates isLeapYear is called on: the first instant of 1 January, of
\* 1 February and the last instant of 31 December of each year.
Years == (0 - MaxYearBC)..MaxYear

LeapInputs ==
    UNION {{MkDate(DayFromYear(y), 0), MkDate(DayFromYear(y) + 31, 0),
            MkDate(DayFromYear(y + 1) - 1, msPerDay - 1)} : y \in Years}

CallIsLeapYear ==
    /\ pc = "idle"
    /\ \E d \in LeapInputs, z \in Zones :
         /\ date' = d
         /\ tza' = z
         /\ result' = isLeapYear(d, z)
    /\ op' = "isLeapYear"
    /\ pc' = "done"
    /\ UNCHANGED <<endDate, value, given>>

\* Date.UTC(2016, 2, 5) and Date.UTC(2016, 3, 5) as day numbers.
ClockDays == {DayFromYear(2016) + 64, DayFromYear(2016) + 95}

ClockInputs ==
    {MkDate(d, h * msPerHour + m * msPerMinute + s * msPerSecond) :
        d \in ClockDays, h \in 0..23, m \in 0..59, s \in {0, 59}}

CallAngleBetweenClockHands ==
    /\ pc = "idle"
    /\ \E d \in ClockInputs :
         /\ date' = d
         /\ result' = angleBetweenClockHands(d)
    /\ op' = "angleBetweenClockHands"
    /\ pc' = "done"
    /\ UNCHANGED <<endDate, value, given, tza>>

\* Dates timeSpanToString is called on.  startDate is Date(2000,1,1,10,0,0)
\* of the examples (1 February 2000, 10:00) or the epoch; endDate is
\* startDate shifted, forwards or backwards, by a span made of a number of
\* hours, minutes, seconds and milliseconds around each padding threshold.
StartDates == {MkDate(DayFromYear(2000) + 31, 10 * msPerHour), MkDate(0, 0)}

HourParts == {0, 1, 5, 9, 10, 11, 24, 99} \cup (100..MaxHours)

MinuteParts == {0, 1, 9, 10, 20, 30, 59}

SecondParts == {0, 1, 9, 10, 20, 59}

MsParts == {0, 1, 9, 10, 99, 100, 250, 453, 999}

Spans ==
    {sign * (hh * msPerHour + mm * msPerMinute + ss * msPerSecond + mmm) :
        sign \in {1, 0 - 1}, hh \in HourParts, mm \in MinuteParts,
        ss \in SecondParts, mmm \in MsParts}

CallTimeSpanToString ==
    /\ pc = "idle"
    /\ \E st \in StartDates, span \in Spans :
         /\ date' = st
         /\ endDate' = AddMs(st, span)
         /\ result' = timeSpanToString(st, AddMs(st, span))
    /\ op' = "timeSpanToString"
    /\ pc' = "done"
    /\ UNCHANGED <<value, given, tza>>

\* ------------------------------------------------- strings given to parse
Pad2(n) == IF n < 10 THEN <<"0">> \o NumToStr(n) ELSE NumToStr(n)

ClockText(r) ==
    Pad2(r.hh) \o <<":">> \o Pad2(r.mm) \o <<":">> \o Pad2(r.ss)

SignText(off) == IF off < 0 THEN <<"-">> ELSE <<"+">>

\* ECMA-262 WeekDay: 0 is Sunday.
WeekDay(day) == (day + 4) % 7

FullMonthNames ==
    << <<"J","a","n","u","a","r","y">>, <<"F","e","b","r","u","a","r","y">>,
       <<"M","a","r","c","h">>, <<"A","p","r","i","l">>, <<"M","a","y">>,
       <<"J","u","n","e">>, <<"J","u","l","y">>, <<"A","u","g","u","s","t">>,
       <<"S","e","p","t","e","m","b","e","r">>,
       <<"O","c","t","o","b","e","r">>, <<"N","o","v","e","m","b","e","r">>,
       <<"D","e","c","e","m","b","e","r">> >>

\* A reading r = [year, month, day, hh, mm, ss, off] written in a form:
\*   "isoZ"      2016-01-26T13:48:02Z                (off = 0)
\*   "isoOffset" 2016-01-26T13:48:02+01:00
\*   "rfcGMT"    Tue, 26 Jan 2016 13:48:02 GMT       (off = 0)
\*   "rfcOffset" Tue, 26 Jan 2016 13:48:02 +0100
\*   "gmtHours"  Tue, 26 Jan 2016 13:48:02 GMT+01    (off whole hours)
\*   "local"     January 26, 2016 13:48:02           (host's zone)
Render(r, form) ==
    LET isoDate == NumToStr(r.year) \o <<"-">> \o Pad2(r.month) \o <<"-">>
                       \o Pad2(r.day) \o <<"T">> \o ClockText(r)
        rfcDate == DayNames[WeekDay(MakeDay(r.year, r.month, r.day)) + 1]
                       \o <<",", " ">> \o Pad2(r.day) \o <<" ">>
                       \o MonthNames[r.month] \o <<" ">> \o NumToStr(r.year)
                       \o <<" ">> \o ClockText(r) \o <<" ">>
        a == Abs(r.off)
    IN  CASE form = "isoZ" -> isoDate \o <<"Z">>
          [] form = "isoOffset" ->
                isoDate \o SignText(r.off) \o Pad2(a \div 60) \o <<":">>
                    \o Pad2(a % 60)
          [] form = "rfcGMT" -> rfcDate \o <<"G", "M", "T">>
          [] form = "rfcOffset" ->
                rfcDate \o SignText(r.off) \o Pad2(a \div 60) \o Pad2(a % 60)
          [] form = "gmtHours" ->
                rfcDate \o <<"G", "M", "T">> \o SignText(r.off)
                    \o Pad2(a \div 60)
          [] form = "local" ->
                FullMonthNames[r.month] \o <<" ">> \o NumToStr(r.day)
                    \o <<",", " ">> \o NumToStr(r.year) \o <<" ">>
                    \o ClockText(r)

Readings ==
    [year : {1995, 1998, 2016}, month : {1, 5, 12}, day : {1, 17, 26, 31},
     hh : {0, 3, 13, 23}, mm : {0, 48}, ss : {0, 2},
     off : {0 - 300, 0, 60, 330}]

Forms == {"isoZ", "isoOffset", "rfcGMT", "rfcOffset", "gmtHours", "local"}

FormAllows(r, form, z) ==
    CASE form \in {"isoZ", "rfcGMT"} -> r.off = 0 /\ z = 0
      [] form \in {"isoOffset", "rfcOffset"} -> z = 0
      [] form = "gmtHours" -> r.off % 60 = 0 /\ r.off # 0 /\ z = 0
      [] form = "local" -> r.off = z

\* Strings that are in no date format.
Malformed ==
    { <<>>,
      <<"n","o","t"," ","a"," ","d","a","t","e">>,
      <<"2","0","1","6","-","1","3","-","0","1","T","0","0",":","0","0",":",
        "0","0","Z">>,
      <<"2","0","1","6","-","0","1","-","1","9","T","2","5",":","0","7",":",
        "3","7","+","0","0",":","0","0">>,
      <<"T","u","e",","," ","2","6"," ","F","o","o"," ","2","0","1","6"," ",
        "1","3",":","4","8",":","0","2"," ","G","M","T">>,
      <<"T","u","e",","," ","2","6"," ","J","a","n"," ","2","0","1","6"," ",
        "1","3",":","6","1",":","0","2"," ","+","0","0","0","0">> }

CallParseDataFromRfc2822 ==
    /\ pc = "idle"
    /\ \/ \E r \in Readings, form \in Forms, z \in Zones \cup {0 - 300, 60, 330} :
            /\ FormAllows(r, form, z)
            /\ value' = Render(r, form)
            /\ given' = r
            /\ tza' = z
            /\ result' = parseDataFromRfc2822(Render(r, form), z)
       \/ \E str \in Malformed :
            /\ value' = str
            /\ given' = NoDate
            /\ tza' = 0
            /\ result' = parseDataFromRfc2822(str, 0)
    /\ op' = "parseDataFromRfc2822"
    /\ pc' = "done"
    /\ UNCHANGED <<date, endDate>>

CallParseDataFromIso8601 ==
    /\ pc = "idle"
    /\ \/ \E r \in Readings, form \in Forms, z \in Zones \cup {0 - 300, 60, 330} :
            /\ FormAllows(r, form, z)
            /\ value' = Render(r, form)
            /\ given' = r
            /\ tza' = z
            /\ result' = parseDataFromIso8601(Render(r, form), z)
       \/ \E str \in Malformed :
            /\ value' = str
            /\ given' = NoDate
            /\ tza' = 0
            /\ result' = parseDataFromIso8601(str, 0)
    /\ op' = "parseDataFromIso8601"
    /\ pc' = "done"
    /\ UNCHANGED <<date, endDate>>

Return ==
    /\ pc = "done"
    /\ pc' = "idle"
    /\ op' = "none"
    /\ date' = NoDate
    /\ endDate' = NoDate
    /\ value' = <<>>
    /\ given' = NoDate
    /\ tza' = 0
    /\ result' = NoDate

Next ==
    \/ CallIsLeapYear
    \/ CallAngleBetweenClockHands
    \/ CallTimeSpanToString
    \/ CallParseDataFromRfc2822
    \/ CallParseDataFromIso8601
    \/ Return

Spec == Init /\ [][Next]_vars

\* =================================================================
\* Properties
\* =================================================================

\* ---------------------------------------------- reading a result back
IsDigit(c) == c \in {"0", "1", "2", "3", "4", "5", "6", "7", "8", "9"}

DigitVal(c) == CHOOSE d \in 0..9 : Digit(d) = c

AllDigits(str) == \A i \in 1..Len(str) : IsDigit(str[i])

RECURSIVE StrToNum(_)
StrToNum(str) ==
    IF Len(str) = 0 THEN 0
    ELSE 10 * StrToNum(SubSeq(str, 1, Len(str) - 1)) + DigitVal(str[Len(str)])

\* Index of the first c in str, 0 if there is none.
IndexOf(str, c) ==
    IF \E i \in 1..Len(str) : str[i] = c
    THEN CHOOSE i \in 1..Len(str) :
            str[i] = c /\ \A j \in 1..(i - 1) : str[j] # c
    ELSE 0

\* The fields of hours:minutes:seconds.milliseconds; the part that follows
\* a missing separator is empty.
Fields(str) ==
    LET c1 == IndexOf(str, ":")
        r1 == IF c1 = 0 THEN <<>> ELSE SubSeq(str, c1 + 1, Len(str))
        c2 == IndexOf(r1, ":")
        r2 == IF c2 = 0 THEN <<>> ELSE SubSeq(r1, c2 + 1, Len(r1))
        c3 == IndexOf(r2, ".")
        r3 == IF c3 = 0 THEN <<>> ELSE SubSeq(r2, c3 + 1, Len(r2))
    IN  [hours |-> SubSeq(str, 1, c1 - 1), minutes |-> SubSeq(r1, 1, c2 - 1),
         seconds |-> SubSeq(r2, 1, c3 - 1), milliseconds |-> r3]

\* A parser of the HH:mm:ss.sss format: the millisecond count of a string.
ParseTimespan(str) ==
    LET f == Fields(str)
    IN  StrToNum(f.hours) * 3600000 + StrToNum(f.minutes) * 60000
            + StrToNum(f.seconds) * 1000 + StrToNum(f.milliseconds)

TimeSpanDone == pc = "done" /\ op = "timeSpanToString"

Span == DateDiff(endDate, date)

AngleDone == pc = "done" /\ op = "angleBetweenClockHands"

ClockMinute == date.ms \div 60000

\* ------------------------------------------------------------------ C1
\* C1: angleBetweenClockHands returns a value within [0, pi] for every UTC
\* hour 0..23 and minute 0..59: the returned fraction num/den of pi
\* satisfies 0 <= num <= den.
C1_AngleWithinZeroPi ==
    AngleDone => (0 <= result.num /\ result.num <= result.den)

\* ------------------------------------------------------------------ C2
\* The five spans of the examples and their strings.
C2_Examples ==
    /\ Span = 3600000 => result = <<"0","1",":","0","0",":","0","0",".","0","0","0">>
    /\ Span = 1800000 => result = <<"0","0",":","3","0",":","0","0",".","0","0","0">>
    /\ Span = 20000 => result = <<"0","0",":","0","0",":","2","0",".","0","0","0">>
    /\ Span = 250 => result = <<"0","0",":","0","0",":","0","0",".","2","5","0">>
    /\ Span = 19210453 =>
          result = <<"0","5",":","2","0",":","1","0",".","4","5","3">>

\* C2: for end >= start, timeSpanToString renders d = end - start as the
\* fields hours = d div 3600000, minutes = (d mod 3600000) div 60000,
\* seconds = (d mod 60000) div 1000, milliseconds = d mod 1000, joined as
\* hours:minutes:seconds.milliseconds; the spans 1h, 30min, 20s, 250ms and
\* 5h20m10.453s give the five strings of the examples.
C2_TimeSpanFields ==
    (TimeSpanDone /\ Span >= 0) =>
        LET f == Fields(result)
        IN  /\ AllDigits(f.hours) /\ Len(f.hours) > 0
            /\ AllDigits(f.minutes) /\ Len(f.minutes) > 0
            /\ AllDigits(f.seconds) /\ Len(f.seconds) > 0
            /\ AllDigits(f.milliseconds) /\ Len(f.milliseconds) > 0
            /\ result = f.hours \o <<":">> \o f.minutes \o <<":">>
                            \o f.seconds \o <<".">> \o f.milliseconds
            /\ StrToNum(f.hours) = Span \div 3600000
            /\ StrToNum(f.minutes) = (Span % 3600000) \div 60000
            /\ StrToNum(f.seconds) = (Span % 60000) \div 1000
            /\ StrToNum(f.milliseconds) = Span % 1000
            /\ C2_Examples

C2_Witness ==
    /\ TimeSpanDone
    /\ Span = 19210453
    /\ result = <<"0","5",":","2","0",":","1","0",".","4","5","3">>

\* ------------------------------------------------------------------ C3
\* The Gregorian rule.
Gregorian(y) == (y % 4 = 0 /\ y % 100 # 0) \/ y % 400 = 0

\* Date(y, 1, 1) of the examples in a host running in UTC.
IsFebruaryFirst(y) == date = MkDate(DayFromYear(y) + 31, 0) /\ tza = 0

\* C3: isLeapYear returns a boolean, true if and only if the date's year
\* is (divisible by 4 and not by 100) or divisible by 400; 1900 -> false,
\* 2000 -> true, 2001 -> false, 2012 -> true, 2015 -> false.
C3_LeapYearRule ==
    (pc = "done" /\ op = "isLeapYear") =>
        /\ result \in BOOLEAN
        /\ result = Gregorian(getFullYear(date, tza))
        /\ \A y \in Years :
              (tza = 0 /\ date.day = DayFromYear(y)) => result = Gregorian(y)
        /\ IsFebruaryFirst(1900) => result = FALSE
        /\ IsFebruaryFirst(2000) => result = TRUE
        /\ IsFebruaryFirst(2001) => result = FALSE
        /\ IsFebruaryFirst(2012) => result = TRUE
        /\ IsFebruaryFirst(2015) => result = FALSE

C3_Witness ==
    /\ pc = "done" /\ op = "isLeapYear"
    /\ IsFebruaryFirst(1900)
    /\ result = FALSE

\* ------------------------------------------------------------------ C4
\* C4: angleBetweenClockHands returns 0 for UTC 00:00, pi/2 for 03:00,
\* pi for 18:00 and pi/2 for 21:00.
C4_AngleExamples ==
    AngleDone =>
        /\ ClockMinute = 0 => result.num = 0
        /\ ClockMinute = 3 * 60 => 2 * result.num = result.den
        /\ ClockMinute = 18 * 60 => result.num = result.den
        /\ ClockMinute = 21 * 60 => 2 * result.num = result.den

C4_Witness ==
    /\ AngleDone
    /\ ClockMinute = 21 * 60
    /\ 2 * result.num = result.den

\* ------------------------------------------------------------------ C5
\* C5: for end >= start the minutes and seconds fields have exactly 2
\* digits, the milliseconds field exactly 3, and the hours field exactly 2
\* below 100 hours and more than 2 only from 100 hours on.
C5_FieldWidths ==
    (TimeSpanDone /\ Span >= 0) =>
        LET f == Fields(result)
        IN  /\ AllDigits(f.hours) /\ AllDigits(f.minutes)
            /\ AllDigits(f.seconds) /\ AllDigits(f.milliseconds)
            /\ Len(f.minutes) = 2
            /\ Len(f.seconds) = 2
            /\ Len(f.milliseconds) = 3
            /\ Span < 100 * 3600000 => Len(f.hours) = 2
            /\ Len(f.hours) > 2 => Span >= 100 * 3600000
            /\ Len(f.hours) >= 2

C5_Witness ==
    /\ TimeSpanDone
    /\ Span >= 100 * 3600000
    /\ Len(Fields(result).hours) = 3
    /\ Len(Fields(result).milliseconds) = 3

\* ------------------------------------------------------------------ C6
\* C6: round trip: for every duration d >= 0, reading the string produced
\* for d back as hours*3600000 + minutes*60000 + seconds*1000 +
\* milliseconds recovers d.
C6_RoundTrip ==
    (TimeSpanDone /\ Span >= 0) => ParseTimespan(result) = Span

C6_Witness ==
    /\ TimeSpanDone
    /\ Span = 101 * 3600000 + 59 * 60000 + 59 * 1000 + 999
    /\ ParseTimespan(result) = Span

\* ------------------------------------------------------------------ C9
\* The shorter angle between the hands at h:m, in half degrees.
ShorterAngleHalfDegrees(h, m) ==
    LET a == Abs(60 * (h % 12) - 11 * m)
    IN  IF a > 360 THEN 720 - a ELSE a

\* C9: for every UTC hour h and minute m the result is the shorter angle
\* between the hands: with h' = h mod 12 and a = |30*h' - 5.5*m| degrees,
\* a when a <= 180 and 360 - a when a > 180, converted to radians.
C9_ShorterAngle ==
    AngleDone =>
        /\ result.den = 360
        /\ result.num =
              ShorterAngleHalfDegrees(ClockMinute \div 60, ClockMinute % 60)

\* ----------------------------------------------------------------- C10
\* C10: timeSpanToString returns a well-formed HH:mm:ss.sss string for
\* every pair of dates, end < start included: minutes and seconds are 2
\* digits within 00..59, milliseconds 3 digits within 000..999.
C10_WellFormedAnySign ==
    TimeSpanDone =>
        LET f == Fields(result)
        IN  /\ AllDigits(f.minutes) /\ Len(f.minutes) = 2
            /\ StrToNum(f.minutes) <= 59
            /\ AllDigits(f.seconds) /\ Len(f.seconds) = 2
            /\ StrToNum(f.seconds) <= 59
            /\ AllDigits(f.milliseconds) /\ Len(f.milliseconds) = 3
            /\ StrToNum(f.milliseconds) <= 999

\* ------------------------------------------------------------------ C7
ParseDone ==
    pc = "done" /\ op \in {"parseDataFromRfc2822", "parseDataFromIso8601"}

\* C7 as stated: each parser fails (the Invalid Date) on every string
\* that does not conform to its own grammar: parseDataFromRfc2822 on any
\* string that is not RFC 2822, parseDataFromIso8601 on any string that is
\* not ISO 8601.
C7_FailsOutsideOwnGrammar ==
    /\ (pc = "done" /\ op = "parseDataFromRfc2822" /\ ~IsRfc2822(value))
          => result = InvalidDate
    /\ (pc = "done" /\ op = "parseDataFromIso8601" /\ ~IsIso8601(value))
          => result = InvalidDate

\* C7 amended: each parser returns what the Date constructor returns for
\* the string and checks no grammar of its own: the Invalid Date exactly
\* on the strings the Date constructor reads in none of its formats, and
\* a valid date on a string in any format it reads (ISO 8601, RFC 2822,
\* 'Month D, YYYY HH:mm:ss', a 'GMT+hh' zone), whichever parser is called.
C7_FailsOutsideEveryDateFormat ==
    ParseDone =>
        /\ (result = InvalidDate) <=> (value \in Malformed)
        /\ value \notin Malformed => result.ms \in 0..(msPerDay - 1)
        /\ (IsIso8601(value) \/ IsRfc2822(value)) => result # InvalidDate

C7_Witness ==
    /\ pc = "done" /\ op = "parseDataFromRfc2822"
    /\ ~IsRfc2822(value) /\ ~IsIso8601(value)
    /\ Len(value) > 0
    /\ result = InvalidDate

\* ------------------------------------------------------------------ C8
\* The instant of a reading: the date made of its components, as
\* Date.UTC makes it, less its offset from UTC.
InstantOf(r) ==
    LET total == MakeTime(r.hh, r.mm, r.ss) - r.off * 60000
    IN  MkDate(MakeDay(r.year, r.month, r.day) + (total \div 86400000),
               total % 86400000)

TextTue26Jan2016 ==
    <<"T","u","e",","," ","2","6"," ","J","a","n"," ","2","0","1","6"," ",
      "1","3",":","4","8",":","0","2"," ","G","M","T">>

\* C8: for every valid RFC 2822 string, parseDataFromRfc2822 yields the
\* instant of the date made from the components the string denotes; and
\* for both parsers strings that denote one instant in different offset
\* notations ('Z', '+00:00', 'GMT', '+0100' with the clock shifted) yield
\* that same instant.
C8_SameInstantAsComponents ==
    (ParseDone /\ given # NoDate /\ (IsRfc2822(value) \/ IsIso8601(value))) =>
        /\ result = InstantOf(given)
        \* 'Tue, 26 Jan 2016 13:48:02 GMT' is 1453816082000 ms
        /\ value = TextTue26Jan2016 => result = MkDate(16826, 49682000)
        /\ \A form \in {"isoZ", "isoOffset", "rfcGMT", "rfcOffset"} :
              FormAllows(given, form, 0) =>
                  /\ parseDataFromRfc2822(Render(given, form), tza) = result
                  /\ parseDataFromIso8601(Render(given, form), tza) = result

C8_Witness ==
    /\ pc = "done" /\ op = "parseDataFromRfc2822"
    /\ IsRfc2822(value)
    /\ given.off = 60 /\ given.hh = 0
    /\ result = InstantOf(given)
    /\ result.ms = 23 * 3600000 + given.mm * 60000 + given.ss * 1000

====
